---- MODULE Spec2Model ----
(***************************************************************************)
(* Model of the Glitcher animation component (src/src/glitch.ts).          *)
(*                                                                         *)
(* Numbers.  The component works on IEEE doubles.  Every real quantity is  *)
(* kept here as an integer numerator over a fixed denominator:             *)
(*   - option values, phase, alpha: units of 1/Scale;                      *)
(*   - a Math.random() draw: k/RandDen, k in 0..RandDen-1;                 *)
(*   - amplitude: units of 1/(Scale*RandDen).                              *)
(* Explicitly supplied options are binary fractions (multiples of 1/Grid,  *)
(* Grid a power of two), for which the double additions of tick() are      *)
(* exact.  The default phaseStep 0.05 is not a binary fraction: its        *)
(* accumulated rounding error is carried in phaseErr (the sign of "double  *)
(* value minus nominal value"), taken from the IEEE sums of 0.05.          *)
(***************************************************************************)
EXTENDS Integers, Sequences, FiniteSets

\* ---------------------------------------------------------------- bounds
\* Binary fraction bits of the explicitly supplied option values.
GridBits == 2
\* A Math.random() draw is one of 0/RandDen .. (RandDen-1)/RandDen.
RandDen == 2
\* At most this many of the six numeric options are supplied explicitly.
MaxSupplied == 1
\* The frame counter `ticks` saturates here.
MaxTicks == 6

\* ------------------------------------------------------------- numerics
RECURSIVE Pow2(_)
Pow2(n) == IF n = 0 THEN 1 ELSE 2 * Pow2(n - 1)

Grid == Pow2(GridBits)
\* 1/Scale is a common unit of the binary grid and of the defaults
\* 0.05, 0.8 and 0.9.
Scale == 5 * Grid
\* One grid step (1/Grid) in units of 1/Scale.
GridStep == Scale \div Grid
One == Scale
AmpDen == Scale * RandDen
Rand == 0 .. (RandDen - 1)

\* Truncation toward zero of a/b (b > 0): what `>> 0` does to a double that
\* fits 32 bits.
Trunc(a, b) == IF a >= 0 THEN a \div b ELSE -((-a) \div b)

\* Math.floor of a/b (b > 0).
Floor(a, b) == a \div b

\* Quarter wave of sin(2*pi*k/40), k = 0..10, in millionths, cut toward 0.
SinQuarter ==
  <<0, 156434, 309016, 453990, 587785, 707106, 809016, 891006, 951056,
    987688, 1000000>>

SinMicroDen == 1000000

RECURSIVE Sin40(_)
Sin40(k) ==
  IF k > 20 THEN -Sin40(k - 20)
  ELSE IF k > 10 THEN SinQuarter[(20 - k) + 1]
  ELSE SinQuarter[k + 1]

\* Math.sin(Math.PI * 2 * phase) in millionths, phase in units of 1/Scale.
SinMicro(p) == Sin40((p * 40) \div Scale)

\* Sign of (double sum of n copies of 0.05) - n/20, n = 1..20.
DefaultStepErr ==
  <<1, 1, 1, 1, 0, -1, -1, -1, -1, -1, -1, -1, 1, 1, 1, 1, 1, 1, 1, 1>>

\* ------------------------------------------------------------- options
Fields ==
  <<"phaseStep", "amplitudeBase", "amplitudeRange", "alphaMin",
    "glitchAmplitude", "glitchThreshold">>

FieldSet == {Fields[i] : i \in 1 .. Len(Fields)}

\* Upper end of each field's range, in whole units (the lower end is 0).
Hi(f) ==
  CASE f = "phaseStep" -> 1
    [] f = "amplitudeBase" -> 5
    [] f = "amplitudeRange" -> 5
    [] f = "alphaMin" -> 1
    [] f = "glitchAmplitude" -> 100
    [] f = "glitchThreshold" -> 1

Lo(f) == 0

\* The value a field takes when the option is omitted, in units of 1/Scale.
Default(f) ==
  CASE f = "phaseStep" -> Scale \div 20
    [] f = "amplitudeBase" -> 2 * Scale
    [] f = "amplitudeRange" -> 2 * Scale
    [] f = "alphaMin" -> (4 * Scale) \div 5
    [] f = "glitchAmplitude" -> 20 * Scale
    [] f = "glitchThreshold" -> (9 * Scale) \div 10

\* The message of the Error thrown for field f.
RangeError(f) ==
  CASE f = "phaseStep" -> "phaseStep must be in range [0,1]"
    [] f = "amplitudeBase" -> "amplitudeBase must be in range [0,5]"
    [] f = "amplitudeRange" -> "amplitudeRange must be in range [0,5]"
    [] f = "alphaMin" -> "alphaMin must be in range [0,1]"
    [] f = "glitchAmplitude" -> "glitchAmplitude must be in range [0,100]"
    [] f = "glitchThreshold" -> "glitchThreshold must be in range [0,1]"

\* Faulty variant of OutOfRange: the upper bound itself is rejected.
OutOfRangeClosed(v, lo, hi) == v >= hi \/ v < lo

\* The guard of each throw: `options.f > hi || options.f < lo`.
OutOfRange(v, lo, hi) == v > hi \/ v < lo

\* options.f is supplied and fails its range check.
Bad(opts, f) ==
  /\ f \in DOMAIN opts
  /\ OutOfRange(opts[f], Lo(f) * Scale, Hi(f) * Scale)

\* Index in Fields of the first check that throws, 0 when none does.
FirstBad(opts) ==
  LET bad == {i \in 1 .. Len(Fields) : Bad(opts, Fields[i])}
  IN IF bad = {} THEN 0 ELSE CHOOSE i \in bad : \A j \in bad : i <= j

\* Values explored for a supplied option: one grid step below the range,
\* both ends of the range, one grid step above, and for phaseStep every
\* grid value in between.
Values(f) ==
  {Lo(f) * Scale - GridStep, Lo(f) * Scale, Hi(f) * Scale,
   Hi(f) * Scale + GridStep}
    \cup (IF f = "phaseStep" THEN {k * GridStep : k \in 0 .. Grid} ELSE {})

\* The options objects: a field is in the domain iff
\* typeof options.f !== "undefined".
AllValues == UNION {Values(f) : f \in FieldSet}

OptionObjects ==
  UNION {{o \in [S -> AllValues] : \A f \in S : o[f] \in Values(f)} :
           S \in {T \in SUBSET FieldSet : Cardinality(T) <= MaxSupplied}}

\* (width, height) of document.documentElement seen by a call.
Viewports == {<<21, 10>>, <<57, 3>>}

\* The canvas element's size before resize() sets it.
DefaultCanvas == <<300, 150>>
\* The canvas context's globalCompositeOperation before the first frame.
DefaultCompositeOp == "source-over"

\* ----------------------------------------------------------------- state
VARIABLES
  pc,            \* "new" (constructor not called), "running", "failed"
  options,       \* the options object handed to the constructor
  cfg,           \* the six numeric fields of the instance
  width, height, textSize,
  channel, phase, phaseErr, amplitude,
  styled,        \* the mount point's style was rewritten
  attached,      \* canvases appended to the mount point
  canvas,        \* <<canvas.width, canvas.height>>
  compositeOp,   \* context.globalCompositeOperation
  pending,       \* callbacks waiting in requestAnimationFrame
  error,         \* message of the Error the constructor threw, "" if none
  frame,         \* what the last render() did: its offsets and, in
                 \* order, its calls on the canvas context
  calls,         \* the calls of the constructor or of the last frame
                 \* callback, in order
  wrapped,       \* the last frame callback took the `phase > 1` branch
  everWrapped,   \* some frame callback took it
  ticks          \* frame callbacks run so far, saturating at MaxTicks

vars ==
  <<pc, options, cfg, width, height, textSize, channel, phase, phaseErr,
    amplitude, styled, attached, canvas, compositeOp, pending, error, frame,
    calls, wrapped, everWrapped, ticks>>

\* Nothing painted yet.
NoFrame ==
  [center |-> 0, x0 |-> 0, alpha |-> AmpDen, ops |-> <<>>]

\* Field initialisers of the class: every numeric field starts at 0.
ClassCfg == [f \in FieldSet |-> 0]

\* Faulty variant of InitialAmplitude: the amplitude starts at 1.0.
InitialAmplitudeOne == AmpDen

\* `this.amplitude = 0.0` of initOptions, in units of 1/AmpDen.
InitialAmplitude == 0

\* The state before `new Glitcher(selector, opts)`: the class's field
\* initialisers, an empty mount point, nothing scheduled.
InitWith(opts) ==
  /\ pc = "new"
  /\ options = opts
  /\ cfg = ClassCfg
  /\ width = 0 /\ height = 0 /\ textSize = 0
  /\ channel = 0 /\ phase = 0 /\ phaseErr = 0 /\ amplitude = 0
  /\ styled = FALSE
  /\ attached = 0
  /\ canvas = DefaultCanvas
  /\ compositeOp = DefaultCompositeOp
  /\ pending = 0
  /\ error = ""
  /\ frame = NoFrame
  /\ calls = <<>>
  /\ wrapped = FALSE
  /\ everWrapped = FALSE
  /\ ticks = 0

Init == \E opts \in OptionObjects : InitWith(opts)

\* ----------------------------------------------------------- initOptions
\* textSize of initOptions: floor(width / 7), or floor(height / 1.5) when
\* that exceeds the height.
InitTextSize(w, h) ==
  IF Floor(w, 7) > h THEN Floor(2 * h, 3) ELSE Floor(w, 7)

\* The numeric fields after initOptions ran up to its first throw (or to
\* its end): a field whose check was passed holds the option or its
\* default, a field not reached keeps its class initialiser.
InitCfg(opts) ==
  LET b == FirstBad(opts)
  IN [f \in FieldSet |->
        LET i == CHOOSE j \in 1 .. Len(Fields) : Fields[j] = f
        IN IF b # 0 /\ i >= b THEN 0
           ELSE IF f \in DOMAIN opts THEN opts[f]
           ELSE Default(f)]

\* ---------------------------------------------------------------- resize
\* textSize of resize: floor(width / 14), or floor(height / 1.5) when that
\* exceeds the height.
ResizeTextSize(w, h) ==
  IF Floor(w, 14) > h THEN Floor(2 * h, 3) ELSE Floor(w, 14)

\* ------------------------------------------------------------------ tick
\* Faulty variant of Wraps: the wrap also fires when phase reaches 1 exactly.
WrapsAtOne(p, e) == p >= One

\* Faulty variant of Wraps: the wrap fires one grid step late.
WrapsLate(p, e) == p > One + GridStep

\* `this.phase > 1` for the double of nominal value p/Scale and rounding
\* sign e.
Wraps(p, e) == p > One \/ (p = One /\ e > 0)

\* Rounding sign of the double reached by adding `step` to a phase that
\* started at 0: exact for a binary fraction, tabulated for 0.05.
FlErr(step, p) ==
  IF step = Default("phaseStep") /\ p \div step \in 1 .. Len(DefaultStepErr)
    THEN DefaultStepErr[p \div step]
    ELSE 0

\* Faulty variant of NextChannel: the cycle runs backwards.
NextChannelBack(c) == IF c = 0 THEN 2 ELSE c - 1

\* `this.channel === 2 ? 0 : this.channel + 1`
NextChannel(c) == IF c = 2 THEN 0 ELSE c + 1

\* amplitudeBase + amplitudeRange * Math.random(), draw r/RandDen, in
\* units of 1/AmpDen.
SampleAmplitude(c, r) ==
  c["amplitudeBase"] * RandDen + c["amplitudeRange"] * r
\* Faulty variant of Update: the amplitude is sampled on every tick.
UpdateResampling(c, ph, ch, amp) ==
  LET p1 == ph + c["phaseStep"]
      e1 == FlErr(c["phaseStep"], p1)
  IN IF Wraps(p1, e1)
       THEN {[phase |-> 0, phaseErr |-> 0, channel |-> NextChannel(ch),
              amplitude |-> SampleAmplitude(c, r), wrapped |-> TRUE] :
               r \in Rand}
       ELSE {[phase |-> p1, phaseErr |-> e1, channel |-> ch,
              amplitude |-> SampleAmplitude(c, r), wrapped |-> FALSE] :
               r \in Rand}

\* The three assignments of the `phase > 1` branch and the addition before
\* it: the possible values of (phase, channel, amplitude) after them, one
\* per Math.random() draw the branch consumes.
Update(c, ph, ch, amp) ==
  LET p1 == ph + c["phaseStep"]
      e1 == FlErr(c["phaseStep"], p1)
  IN IF Wraps(p1, e1)
       THEN {[phase |-> 0, phaseErr |-> 0, channel |-> NextChannel(ch),
              amplitude |-> SampleAmplitude(c, r), wrapped |-> TRUE] :
               r \in Rand}
       ELSE {[phase |-> p1, phaseErr |-> e1, channel |-> ch,
              amplitude |-> amp, wrapped |-> FALSE]}

\* ---------------------------------------------------------------- render
\* (amplitude * Math.sin(Math.PI * 2 * phase)) >> 0
BaseOffset(amp, ph) == Trunc(amp * SinMicro(ph), AmpDen * SinMicroDen)

\* `Math.random() >= this.glitchThreshold` for the draw r/RandDen.
GlitchFires(c, r) == r * Scale >= c["glitchThreshold"] * RandDen

\* x0 after the glitch trigger, in units of 1/Scale.
Offset(c, amp, ph, r) ==
  IF GlitchFires(c, r)
    THEN BaseOffset(amp, ph) * c["glitchAmplitude"]
    ELSE BaseOffset(amp, ph) * Scale

\* `this.width >> 1`
Center(w) == w \div 2

\* alphaMin + (1 - alphaMin) * Math.random(), in units of 1/AmpDen.
Alpha(c, r) == c["alphaMin"] * RandDen + (Scale - c["alphaMin"]) * r

\* renderChannels(x1, x2, x3): the three fillText calls, each with its fill
\* style, its x (units of 1/Scale), twice its y, and the composite
\* operation in force; `op` is the one in force on entry.
RenderChannels(x1, x2, x3, h, op) ==
  <<[op |-> "fillText", fill |-> "rgb(255,0,0)", x |-> x1, y2 |-> h,
     comp |-> op],
    [op |-> "fillText", fill |-> "rgb(0,255,0)", x |-> x2, y2 |-> h,
     comp |-> "lighter"],
    [op |-> "fillText", fill |-> "rgb(0,0,255)", x |-> x3, y2 |-> h,
     comp |-> "lighter"]>>

\* Faulty variant of ChannelPasses: channel 1 repeats the order of channel 0.
ChannelPassesStuck(ch, x1, x2, x3, h, op) ==
  CASE ch = 0 -> RenderChannels(x1, x2, x3, h, op)
    [] ch = 1 -> RenderChannels(x1, x2, x3, h, op)
    [] ch = 2 -> RenderChannels(x3, x1, x2, h, op)
    [] OTHER -> <<>>

\* The switch on this.channel.
ChannelPasses(ch, x1, x2, x3, h, op) ==
  CASE ch = 0 -> RenderChannels(x1, x2, x3, h, op)
    [] ch = 1 -> RenderChannels(x2, x3, x1, h, op)
    [] ch = 2 -> RenderChannels(x3, x1, x2, h, op)
    [] OTHER -> <<>>

\* renderScanline(): one getImageData/putImageData pass over the row
\* `(this.height * Math.random()) >> 0`, for the draw d/RandDen.  The
\* brightness added to the row's bytes and its displacement are pixel data
\* of the canvas and are not kept.
RenderScanline(h, d) == [op |-> "scanline", y |-> Trunc(h * d, RandDen)]

\* Faulty variant of SecondScanline: the comparison is `>= 1`.
SecondScanlineHalf(r) == Floor(2 * r, RandDen) >= 1

\* `Math.floor(Math.random() * 2) > 1` for the draw r/RandDen.
SecondScanline(r) == Floor(2 * r, RandDen) > 1

\* The scanline passes of one render: the unconditional one, then the
\* guarded one.
Scanlines(h) ==
  UNION {IF SecondScanline(r)
           THEN {<<RenderScanline(h, d1), RenderScanline(h, d2)>> :
                   d1 \in Rand, d2 \in Rand}
           ELSE {<<RenderScanline(h, d1)>> : d1 \in Rand} :
         r \in Rand}

\* render(): the frames it can paint, one per combination of draws.  The
\* calls on the context are kept in the order render() makes them.
Render(c, w, h, ch, ph, amp, op) ==
  LET x1 == Center(w) * Scale
  IN {[center |-> Center(w),
       x0 |-> x0,
       alpha |-> a,
       ops |-> <<[op |-> "clearRect", w |-> w, h |-> h]>>
                 \o ChannelPasses(ch, x1, x1 + x0, x1 - x0, h, op)
                 \o sl] :
        x0 \in {Offset(c, amp, ph, rg) : rg \in Rand},
        a \in {Alpha(c, ra) : ra \in Rand},
        sl \in Scanlines(h)}

\* ------------------------------------------------------------ call order
\* tick(): one more callback handed to requestAnimationFrame.
Tick(log, pend) ==
  [log |-> Append(log, <<"requestAnimationFrame", pend>>), pending |-> pend + 1]

\* Faulty variant of Callback: the next frame is requested before the work.
CallbackEager(pend) ==
  LET t == Tick(<<>>, pend)
  IN [log |-> t.log \o <<<<"update", t.pending>>, <<"render", t.pending>>>>,
      pending |-> t.pending]

\* The body of the frame callback: the state update, render(), tick().
\* Each entry of the log is a call and the callbacks pending when it is
\* made; pend is what is pending once this callback was taken.
Callback(pend) == Tick(<<<<"update", pend>>, <<"render", pend>>>>, pend)

\* -------------------------------------------------------------- actions
\* new Glitcher(selector, options), lines 38-67, with resize() and tick()
\* when initOptions does not throw.
Construct ==
  /\ pc = "new"
  /\ \E vp \in Viewports :
       LET b == FirstBad(options)
           t == Tick(<<<<"initOptions", 0>>, <<"resize", 0>>>>, 0)
       IN /\ styled' = TRUE
          /\ attached' = attached + 1
          /\ width' = vp[1]
          /\ height' = vp[2]
          /\ channel' = 0
          /\ phase' = 0
          /\ phaseErr' = 0
          /\ amplitude' = InitialAmplitude
          /\ cfg' = InitCfg(options)
          /\ IF b # 0
               THEN /\ pc' = "failed"
                    /\ error' = RangeError(Fields[b])
                    /\ textSize' = InitTextSize(vp[1], vp[2])
                    /\ canvas' = canvas
                    /\ pending' = pending
                    /\ calls' = <<<<"initOptions", 0>>>>
               ELSE /\ pc' = "running"
                    /\ error' = error
                    /\ textSize' = ResizeTextSize(vp[1], vp[2])
                    /\ canvas' = vp
                    /\ pending' = t.pending
                    /\ calls' = t.log
  /\ UNCHANGED <<options, compositeOp, frame, wrapped, everWrapped, ticks>>

\* The callback handed to requestAnimationFrame, lines 145-157.
Frame ==
  /\ pc = "running"
  /\ pending > 0
  /\ \E u \in Update(cfg, phase, channel, amplitude) :
       \E f \in Render(cfg, width, height, u.channel, u.phase, u.amplitude,
                       compositeOp) :
         /\ phase' = u.phase
         /\ phaseErr' = u.phaseErr
         /\ channel' = u.channel
         /\ amplitude' = u.amplitude
         /\ wrapped' = u.wrapped
         /\ everWrapped' = (everWrapped \/ u.wrapped)
         /\ frame' = f
         /\ compositeOp' =
              IF \E i \in DOMAIN f.ops : f.ops[i].op = "fillText"
                THEN "lighter" ELSE compositeOp
  /\ pending' = Callback(pending - 1).pending
  /\ calls' = Callback(pending - 1).log
  /\ ticks' = IF ticks < MaxTicks THEN ticks + 1 ELSE ticks
  /\ UNCHANGED <<pc, options, cfg, width, height, textSize, styled, attached,
                 canvas, error>>

\* resize(), lines 223-238, called by the host with the viewport at vp.
Resize ==
  /\ pc = "running"
  /\ \E vp \in Viewports :
       /\ width' = vp[1]
       /\ height' = vp[2]
       /\ canvas' = vp
       /\ textSize' = ResizeTextSize(vp[1], vp[2])
  /\ UNCHANGED <<pc, options, cfg, channel, phase, phaseErr, amplitude,
                 styled, attached, compositeOp, pending, error, frame,
                 calls, wrapped, everWrapped, ticks>>

Next == Construct \/ Frame \/ Resize

Spec == Init /\ [][Next]_vars
\* A second specification: the boundary scenario, in which the options
\* object is {phaseStep: 1.0, amplitudeBase: 0, amplitudeRange: 0}.
BoundaryOptions ==
  [f \in {"phaseStep", "amplitudeBase", "amplitudeRange"} |->
     IF f = "phaseStep" THEN One ELSE 0]

InitBoundary == InitWith(BoundaryOptions)

SpecBoundary == InitBoundary /\ [][Next]_vars

\* ---------------------------------------------------------------- claims
\* The constructor has returned or thrown.
Constructed == pc # "new"

\* render() has run at least once.
Painted == frame.ops # <<>>

IsText(o) == o.op = "fillText"
IsScanline(o) == o.op = "scanline"
Texts == SelectSeq(frame.ops, IsText)

\* A step of the frame callback: of the steps of a constructed instance,
\* the frame callback is the one that leaves the sizes alone and resize()
\* the one that changes them (a resize() to the same viewport changes
\* nothing at all).
TickStep ==
  pc = "running" /\ UNCHANGED <<width, height, textSize, canvas>>

ResizeStep ==
  pc = "running" /\ <<width, height, canvas>>' # <<width, height, canvas>>

\* Every supplied option other than f lies in its range.
OthersValid(f) ==
  \A g \in DOMAIN options \ {f} :
    options[g] >= Lo(g) * Scale /\ options[g] <= Hi(g) * Scale

\* C1: for each bounded numeric option, all others being valid or omitted:
\* a value below the lower or above the upper bound makes construction
\* fail with the error naming the field and its range; a value equal to
\* the lower or to the upper bound lets construction succeed.
C1_RangeChecks ==
  Constructed =>
    \A f \in DOMAIN options :
      OthersValid(f) =>
        /\ (options[f] < Lo(f) * Scale \/ options[f] > Hi(f) * Scale)
             => (pc = "failed" /\ error = RangeError(f))
        /\ (options[f] = Lo(f) * Scale \/ options[f] = Hi(f) * Scale)
             => (pc = "running" /\ error = "" /\ cfg[f] = options[f])

\* C1 witness: amplitudeBase above 5 was rejected with its message.
C1_Witness ==
  /\ pc = "failed"
  /\ "amplitudeBase" \in DOMAIN options
  /\ options["amplitudeBase"] > 5 * Scale
  /\ OthersValid("amplitudeBase")
  /\ error = "amplitudeBase must be in range [0,5]"

\* C2: when construction fails on an out-of-range option, nothing is left
\* behind: no callback is pending, nothing was rendered, no canvas is
\* attached to the mount point and the mount point is as it was.
C2_FailureLeavesNothing ==
  pc = "failed" =>
    /\ pending = 0
    /\ ~Painted
    /\ attached = 0
    /\ styled = FALSE

\* C3: channel starts at 0, stays in {0,1,2}, advances by one step of
\* 0 -> 1 -> 2 -> 0 in a frame whose phase wraps, and is unchanged by a
\* frame without a wrap and by any other step.
C3_ChannelCycle ==
  /\ channel = 0
  /\ [][/\ channel' \in {0, 1, 2}
        /\ IF TickStep /\ wrapped'
             THEN channel' = (channel + 1) % 3
             ELSE channel' = channel]_vars

\* C3 witness: the channel is back at 0 after a wrap.
C3_Witness == wrapped /\ channel = 0 /\ everWrapped

\* The double held in phase is below 1 / at most 1.
PhaseBelowOne == phase < One \/ (phase = One /\ phaseErr < 0)
PhaseAtMostOne == phase < One \/ (phase = One /\ phaseErr <= 0)

\* C4 as stated: in every state in which a frame has been rendered,
\* 0 <= phase < 1, and phase is exactly 0 after a wrap.
C4_PhaseHalfOpen ==
  (Painted /\ cfg["phaseStep"] >= 0 /\ cfg["phaseStep"] <= One) =>
    /\ 0 <= phase
    /\ PhaseBelowOne
    /\ wrapped => (phase = 0 /\ phaseErr = 0)

\* C4 amended: in every state in which a frame has been rendered,
\* 0 <= phase <= 1 (1 itself is rendered, the wrap test being phase > 1),
\* and phase is exactly 0 after a wrap.
C4_PhaseClosed ==
  (Painted /\ cfg["phaseStep"] >= 0 /\ cfg["phaseStep"] <= One) =>
    /\ 0 <= phase
    /\ PhaseAtMostOne
    /\ wrapped => (phase = 0 /\ phaseErr = 0)

\* C4 witness: a frame was rendered with phase exactly 1.
C4_Witness == Painted /\ phase = One /\ phaseErr = 0 /\ ~wrapped

\* C5: amplitude is written only by a frame in which phase wraps: a frame
\* without a wrap and a resize leave it as it was, and at a wrap the new
\* value lies in [amplitudeBase, amplitudeBase + amplitudeRange].
C5_AmplitudeOnlyAtWrap ==
  [][/\ (TickStep /\ ~wrapped') => amplitude' = amplitude
     /\ ResizeStep => amplitude' = amplitude
     /\ pc = "new" => amplitude' = amplitude
     /\ (TickStep /\ wrapped') =>
          /\ channel' # channel
          /\ amplitude' >= cfg["amplitudeBase"] * RandDen
          /\ amplitude' <=
               (cfg["amplitudeBase"] + cfg["amplitudeRange"]) * RandDen]_vars

\* C5 witness: a frame without a wrap ran after the amplitude was sampled
\* above its base.
C5_Witness ==
  /\ everWrapped
  /\ ~wrapped
  /\ amplitude > cfg["amplitudeBase"] * RandDen

\* The options of the boundary scenario are in force.
BoundaryScenario ==
  /\ pc = "running"
  /\ cfg["phaseStep"] = One
  /\ cfg["amplitudeBase"] = 0
  /\ cfg["amplitudeRange"] = 0

\* C6 as stated: with phaseStep = 1.0, amplitudeBase = 0 and
\* amplitudeRange = 0 every frame wraps: after k frames channel = k mod 3
\* and phase = 0.
C6_WrapsEveryTick ==
  (BoundaryScenario /\ ticks < MaxTicks) =>
    (channel = ticks % 3 /\ phase = 0)

\* C6 amended: with those options every second frame wraps, the first
\* frame does not: after k frames channel = floor(k/2) mod 3, and phase is
\* 1 for odd k and 0 for even k.
C6_WrapsEverySecondTick ==
  (BoundaryScenario /\ ticks < MaxTicks) =>
    /\ channel = (ticks \div 2) % 3
    /\ phase = (ticks % 2) * One
    /\ phaseErr = 0
    /\ ticks > 0 => (wrapped <=> ticks % 2 = 0)

\* C6 witness: three frames in, the channel has advanced once and phase
\* is 1.
C6_Witness ==
  BoundaryScenario /\ ticks = 3 /\ channel = 1 /\ phase = One

\* C7: at most one callback is pending at any moment; each callback does
\* one state update, then one render, and requests the next callback only
\* after both, none being pending meanwhile.
C7_FramesSequential ==
  /\ pending <= 1
  /\ pc = "running" => pending = 1
  /\ ticks > 0 =>
       calls = <<<<"update", 0>>, <<"render", 0>>,
                 <<"requestAnimationFrame", 0>>>>

\* C7 witness: two callbacks have run and one is pending.
C7_Witness == ticks >= 2 /\ pending = 1 /\ Painted

\* C8: render makes one renderChannels call, drawing red, green, blue at
\* (center, center+x0, center-x0) for channel 0, (center+x0, center-x0,
\* center) for channel 1 and (center-x0, center, center+x0) for channel 2,
\* so each of the three positions is used by exactly one pass.
C8_ChannelPositions ==
  Painted =>
    LET c == frame.center * Scale
        pos == <<c, c + frame.x0, c - frame.x0>>
        want == CASE channel = 0 -> <<1, 2, 3>>
                  [] channel = 1 -> <<2, 3, 1>>
                  [] channel = 2 -> <<3, 1, 2>>
    IN /\ Len(Texts) = 3
       /\ <<Texts[1].fill, Texts[2].fill, Texts[3].fill>>
            = <<"rgb(255,0,0)", "rgb(0,255,0)", "rgb(0,0,255)">>
       /\ \A i \in 1 .. 3 : Texts[i].x = pos[want[i]]
       /\ {want[i] : i \in 1 .. 3} = {1, 2, 3}

\* C8 witness: a frame of channel 1 with a non-zero offset.
C8_Witness == Painted /\ channel = 1 /\ frame.x0 # 0

\* C9: every render applies the scanline distortion exactly once, after
\* the three text passes; no draw satisfies the guard of the second
\* application.
C9_OneScanline ==
  /\ \A r \in Rand : ~(Floor(2 * r, RandDen) > 1)
  /\ Painted =>
       /\ Len(SelectSeq(frame.ops, IsScanline)) = 1
       /\ Len(frame.ops) = 5
       /\ \A i \in 2 .. 4 : IsText(frame.ops[i])
       /\ IsScanline(frame.ops[5])

\* C9 witness: a rendered frame whose fifth and last call is the scanline.
C9_Witness == Painted /\ ticks >= 2 /\ IsScanline(frame.ops[Len(frame.ops)])

\* C10: until the first wrap amplitude is 0, whatever amplitudeBase and
\* amplitudeRange are, and every frame rendered until then has offset 0,
\* all three passes at the center; from the first wrap on amplitude lies
\* in [amplitudeBase, amplitudeBase + amplitudeRange].
C10_ZeroUntilFirstWrap ==
  /\ (pc = "running" /\ ~everWrapped) =>
       /\ amplitude = 0
       /\ Painted =>
            /\ frame.x0 = 0
            /\ \A i \in 1 .. Len(Texts) : Texts[i].x = frame.center * Scale
  /\ everWrapped =>
       /\ amplitude >= cfg["amplitudeBase"] * RandDen
       /\ amplitude <= (cfg["amplitudeBase"] + cfg["amplitudeRange"]) * RandDen

\* C10 witness: a frame rendered before the first wrap with
\* amplitudeBase > 0, so amplitude < amplitudeBase there.
C10_Witness ==
  /\ Painted
  /\ ~everWrapped
  /\ cfg["amplitudeBase"] > 0
  /\ amplitude < cfg["amplitudeBase"] * RandDen
====
